---- MODULE Spec2Model ----
(***************************************************************************)
(* Model of sushichef.py: MyChef.construct_channel and its helpers         *)
(* (get_asset_paths_from_json, download, get_model_license).               *)
(*                                                                         *)
(* construct_channel is one sequential routine; it is cut into steps at    *)
(* its network requests and filesystem operations so that the order of     *)
(* those effects and the point where an uncaught exception ends the run    *)
(* are visible.  The network is the environment: every response is drawn   *)
(* from a small set when the request is made.                              *)
(*                                                                         *)
(* Paths are sequences of components, a component is [stem, ext]; the      *)
(* empty sequence is the empty string (the soup directory itself when      *)
(* taken relative to it).  List indices are 1-based: soup k of the model   *)
(* is index k-1 of the code.                                               *)
(***************************************************************************)
EXTENDS Integers, Sequences, FiniteSets, TLC

VARIABLES
    models,                 \* catalog records, line 76
    redirects,              \* environment: what requests.get(preview_url) does for entry k
    pc,                     \* position in construct_channel
    resolved_urls,          \* line 79, built entry by entry
    embeddable_parsed_urls, \* line 83
    src,                    \* history: catalog index each embeddable url was resolved from
    i,                      \* loop variable of line 93 (1-based)
    fs,                     \* soup k -> [dirs, files] under temp_dir/soup_k
    fragment_json,          \* line 115
    root_resp,              \* history: the response to the root fetch of the current entry
    todo,                   \* rest of relative_asset_paths, line 126
    log,                    \* history: download calls of the current entry
    zips,                   \* soup k -> files archived by create_predictable_zip
    channel,                \* nodes added to the channel, in order
    err,                    \* the uncaught exception that ended the run, "" if none
    call                    \* one call of download() taken alone: arguments and result

vars == <<models, redirects, pc, resolved_urls, embeddable_parsed_urls, src, i, fs,
          fragment_json, root_resp, todo, log, zips, channel, err, call>>

----------------------------------------------------------------------------
(* Bounds and input sets *)

MaxEntries == 2

IdOf(k) == 6 + k

D(name) == [stem |-> name, ext |-> ""]
J(name) == [stem |-> name, ext |-> ".json"]

EmbeddablePath == "/embeddable.html"

\* fragments of resolved urls: with and without a directory component
Fragments == { <<J("a")>>, <<D("m"), J("a")>> }

\* asset references a configuration may carry
P1 == <<D("m"), J("b")>>
P2 == <<D("n"), J("c")>>
P3 == <<J("d")>>
PI == <<D("l"), J("i")>>
\* a reference found inside the documents served at P1, P2, P3
PSub == <<D("s"), J("e")>>

IndexHtml == <<[stem |-> "index", ext |-> ".html"]>>

\* static assets the html document may reference: the sets the crawl may stage
LabJs == <<D("lab"), [stem |-> "lab", ext |-> ".js"]>>
ImagePng == <<D("m"), [stem |-> "x", ext |-> ".png"]>>
StaticAssetSets == { {LabJs}, {LabJs, ImagePng} }

----------------------------------------------------------------------------
(* os.path *)

dirname(p) == IF p = <<>> THEN <<>> ELSE SubSeq(p, 1, Len(p) - 1)

basename(p) == IF p = <<>> THEN [stem |-> "", ext |-> ""] ELSE p[Len(p)]

splitext(c) == <<c.stem, c.ext>>

Prefixes(p) == { SubSeq(p, 1, k) : k \in 0..Len(p) }

----------------------------------------------------------------------------
(* JSON values and Python built-ins *)

Absent == [t |-> "absent", s |-> <<>>]
Str(x) == [t |-> "str", s |-> <<x>>]
List(xs) == [t |-> "list", s |-> xs]

\* dict.get(key, default)
Get(v, default) == IF v.t = "absent" THEN default ELSE v

RECURSIVE Joined(_)
Joined(xs) ==
    IF xs = <<>> THEN ""
    ELSE IF Len(xs) = 1 THEN "'" \o xs[1] \o "'"
    ELSE "'" \o xs[1] \o "', " \o Joined(Tail(xs))

\* str(): a string is itself, a list becomes its printed form
str(v) == IF v.t = "str" THEN v ELSE Str("[" \o Joined(v.s) \o "]")

\* str.startswith
startswith(s, prefix) ==
    /\ Len(s) >= Len(prefix)
    /\ SubSeq(s, 1, Len(prefix)) = prefix

\* a 'url' / 'i18nMetadata' member: missing, or a (possibly empty) relative path
NoUrl == [has |-> FALSE, p |-> <<>>]
Url(p) == [has |-> TRUE, p |-> p]

\* truth value of dict.get(key) for such a member
Truthy(u) == u.has /\ u.p # <<>>

\* 'models' and 'i18nMetadata' members of a configuration
References ==
    { [models |-> <<>>, i18nMetadata |-> NoUrl],
      [models |-> <<>>, i18nMetadata |-> Url(<<>>)],
      [models |-> << [url |-> Url(P1)], [url |-> Url(P2)] >>, i18nMetadata |-> NoUrl],
      [models |-> << [url |-> Url(P2)], [url |-> Url(P1)] >>, i18nMetadata |-> NoUrl],
      [models |-> << [url |-> NoUrl], [url |-> Url(<<>>)], [url |-> Url(P3)] >>,
       i18nMetadata |-> Url(PI)] }

\* title, about and redirect members of a configuration
Metas ==
    { [title |-> Str("Pendulum"), about |-> Str("A pendulum sim"), redirect |-> FALSE],
      [title |-> Str("Pendulum"), about |-> List(<<"a", "b">>), redirect |-> FALSE],
      [title |-> Absent, about |-> Absent, redirect |-> TRUE] }

Configs ==
    { [title |-> m.title, about |-> m.about, redirect |-> m.redirect,
       models |-> r.models, i18nMetadata |-> r.i18nMetadata] :
        m \in Metas, r \in References }

ContentTypes == {"application/json", "application/json; charset=utf-8", "text/html"}

\* what requests.get returns for a JSON url
Responses ==
    { r \in [ok : BOOLEAN, has_ct : BOOLEAN, ct : ContentTypes \cup {""}, body_json : BOOLEAN] :
        r.has_ct <=> r.ct # "" }

\* what requests.get(preview_url) does: raise, or end at a final url
Resolutions ==
    { [raises |-> TRUE, path |-> "", fragment |-> <<>>],
      [raises |-> FALSE, path |-> "/activities", fragment |-> <<>>] }
    \cup { [raises |-> FALSE, path |-> EmbeddablePath, fragment |-> f] : f \in Fragments }

----------------------------------------------------------------------------
(* Filesystem of one soup directory *)

EmptyDir == [dirs |-> {<<>>}, files |-> <<>>]

NoDir == [dirs |-> {}, files |-> <<>>]

Content(kind, of) == [kind |-> kind, of |-> of]

\* open(path, 'w') followed by f.write(content)
WriteFile(d, path, content) ==
    [d EXCEPT !.files = (path :> content) @@ d.files]

\* os.makedirs(dir, exist_ok=True)
MakeDirsExistOk(d, dir) == [d EXCEPT !.dirs = d.dirs \cup Prefixes(dir)]

----------------------------------------------------------------------------
(* Helpers of sushichef.py *)

\* variant: the i18nMetadata reference is forgotten
get_asset_paths_from_json_models_only(json) ==
    LET withUrl == SelectSeq(json.models, LAMBDA model : Truthy(model.url))
    IN  [k \in 1..Len(withUrl) |-> withUrl[k].url.p]

get_asset_paths_from_json(json) ==
    LET withUrl == SelectSeq(json.models, LAMBDA model : Truthy(model.url))
        urls == [k \in 1..Len(withUrl) |-> withUrl[k].url.p]
    IN  IF Truthy(json.i18nMetadata) THEN Append(urls, json.i18nMetadata.p) ELSE urls

\* download(url, download_path) on soup directory d, where response is what
\* requests.get(url) returned.  Result: the directory afterwards, and the
\* exception that left the function ("" when it returned).
download(response, download_path, d) ==
    IF ~response.ok THEN [fs |-> d, raised |-> "", outcome |-> "http_error"]
    ELSE IF ~response.has_ct THEN [fs |-> d, raised |-> "KeyError", outcome |-> "raised"]
    ELSE IF ~startswith(response.ct, "application/json")
         THEN [fs |-> d, raised |-> "", outcome |-> "wrong_content_type"]
    ELSE LET made == MakeDirsExistOk(d, dirname(download_path))
         IN  IF ~response.body_json
             THEN [fs |-> WriteFile(made, download_path, Content("empty", download_path)),
                   raised |-> "JSONDecodeError", outcome |-> "raised"]
             ELSE [fs |-> WriteFile(made, download_path, Content("json", download_path)),
                   raised |-> "", outcome |-> "ok"]

\* model.get['license_info']['code'] always raises inside the try
get_model_license(model) == "unknown_license"

\* os.makedirs(dir) without exist_ok: FileExistsError when dir is already there
makedirs(d, dir) ==
    IF dir \in d.dirs THEN [fs |-> d, raised |-> "FileExistsError"]
    ELSE [fs |-> [d EXCEPT !.dirs = d.dirs \cup Prefixes(dir)], raised |-> ""]

\* lines 136, 142, 143
topic_node_title(json) == Get(json.title, Str("follow redirect to get topic title"))

\* variant: .get('title') without a default
app_node_title_no_default(json) == json.title

app_node_title(json) == Get(json.title, Str("follow redirect to get app title"))

app_node_description(json) ==
    str(Get(json.about, Str("follow redirect to get app description")))

\* line 137: the catalog record is taken at the loop index
topic_node_source_id(ms, k) == <<"model", ms[k].id>>

\* line 141
app_node_source_id(fragment) == <<"embeddable", splitext(basename(fragment))[1]>>

\* lines 83-85: the catalog positions whose resolved url is the embeddable page
RECURSIVE EmbeddableIndices(_, _)
EmbeddableIndices(urls, k) ==
    IF k > Len(urls) THEN <<>>
    ELSE IF urls[k].path = EmbeddablePath
         THEN <<k>> \o EmbeddableIndices(urls, k + 1)
         ELSE EmbeddableIndices(urls, k + 1)

----------------------------------------------------------------------------
(* construct_channel *)

NoResponse == [sent |-> FALSE, failed |-> FALSE]

\* a fetch fails on a non-success status, another content-type or a body that is not JSON
FetchFails(response) ==
    \/ ~response.ok
    \/ ~(response.has_ct /\ startswith(response.ct, "application/json"))
    \/ ~response.body_json

NoCall == [response |-> [ok |-> FALSE, has_ct |-> FALSE, ct |-> "", body_json |-> FALSE],
           path |-> <<>>, before |-> NoDir, after |-> NoDir, raised |-> "", done |-> FALSE,
           made |-> FALSE]

NoJson == [title |-> Absent, about |-> Absent, redirect |-> FALSE,
           models |-> <<>>, i18nMetadata |-> NoUrl]

Init ==
    /\ \E len \in 1..MaxEntries :
         /\ models = [k \in 1..len |-> [id |-> IdOf(k), preview_url |-> k]]
         /\ redirects \in [1..len -> Resolutions]
    /\ pc = "resolve"
    /\ resolved_urls = <<>>
    /\ embeddable_parsed_urls = <<>>
    /\ src = <<>>
    /\ i = 1
    /\ fs = <<>>
    /\ fragment_json = NoJson
    /\ root_resp = NoResponse
    /\ todo = <<>>
    /\ log = {}
    /\ zips = <<>>
    /\ channel = <<>>
    /\ err = ""
    /\ call = NoCall

Abort(exception) ==
    /\ pc' = "aborted"
    /\ err' = exception

\* line 79, one entry: requests.get(preview_url).url
Resolve ==
    /\ pc = "resolve"
    /\ Len(resolved_urls) < Len(models)
    /\ LET r == redirects[models[Len(resolved_urls) + 1].preview_url]
       IN  IF r.raises
           THEN /\ Abort("ConnectionError")
                /\ UNCHANGED resolved_urls
           ELSE /\ resolved_urls' = Append(resolved_urls, [path |-> r.path, fragment |-> r.fragment])
                /\ UNCHANGED <<pc, err>>
    /\ UNCHANGED <<models, redirects, embeddable_parsed_urls, src, i, fs, fragment_json,
                   root_resp, todo, log, zips, channel, call>>

\* lines 80-91: filter the embeddable urls, make the temp dir, fetch the soups
Filter ==
    /\ pc = "resolve"
    /\ Len(resolved_urls) = Len(models)
    /\ embeddable_parsed_urls' = SelectSeq(resolved_urls, LAMBDA x : x.path = EmbeddablePath)
    /\ src' = EmbeddableIndices(resolved_urls, 1)
    /\ i' = 1
    /\ pc' = "loop"
    /\ UNCHANGED <<models, redirects, resolved_urls, fs, fragment_json, root_resp, todo,
                   log, zips, channel, err, call>>

\* lines 93-95: next soup, os.makedirs(soup_dir)
MakeSoupDir ==
    /\ pc = "loop"
    /\ i <= Len(embeddable_parsed_urls)
    /\ fs' = Append(fs, EmptyDir)
    /\ pc' = "crawl"
    /\ UNCHANGED <<models, redirects, resolved_urls, embeddable_parsed_urls, src, i,
                   fragment_json, root_resp, todo, log, zips, channel, err, call>>

\* lines 100-107: download_static_assets, then index.html
Crawl ==
    /\ pc = "crawl"
    /\ \E assets \in StaticAssetSets :
         LET dirs == UNION { Prefixes(dirname(a)) : a \in assets }
             files == [a \in assets |-> Content("static", a)]
         IN  fs' = [fs EXCEPT ![i] =
                       WriteFile([dirs |-> @.dirs \cup dirs, files |-> files @@ @.files],
                                 IndexHtml, Content("html", embeddable_parsed_urls[i].fragment))]
    /\ pc' = "fetch_root"
    /\ UNCHANGED <<models, redirects, resolved_urls, embeddable_parsed_urls, src, i,
                   fragment_json, root_resp, todo, log, zips, channel, err, call>>

\* lines 110-115: requests.get(fragment_url).json()
FetchRoot ==
    /\ pc = "fetch_root"
    /\ \E response \in Responses, json \in Configs :
         /\ root_resp' = [sent |-> TRUE, failed |-> FetchFails(response)]
         /\ IF ~response.body_json
            THEN /\ Abort("JSONDecodeError")
                 /\ UNCHANGED fragment_json
            ELSE /\ fragment_json' = json
                 /\ pc' = "write_root"
                 /\ UNCHANGED err
    /\ UNCHANGED <<models, redirects, resolved_urls, embeddable_parsed_urls, src, i, fs,
                   todo, log, zips, channel, call>>

\* lines 117-125: os.makedirs(download_dir), write the configuration, list its assets
WriteRoot ==
    /\ pc = "write_root"
    /\ LET embeddable_fragment == embeddable_parsed_urls[i].fragment
           made == makedirs(fs[i], dirname(embeddable_fragment))
       IN  IF made.raised # ""
           THEN /\ Abort(made.raised)
                /\ UNCHANGED <<fs, todo>>
           ELSE /\ fs' = [fs EXCEPT ![i] =
                             WriteFile(made.fs,
                                       dirname(embeddable_fragment) \o <<basename(embeddable_fragment)>>,
                                       Content("json", embeddable_fragment))]
                /\ todo' = get_asset_paths_from_json(fragment_json)
                /\ pc' = "walk"
                /\ UNCHANGED err
    /\ UNCHANGED <<models, redirects, resolved_urls, embeddable_parsed_urls, src, i,
                   fragment_json, root_resp, log, zips, channel, call>>

\* lines 126-131: one iteration of the asset loop
Download ==
    /\ pc = "walk"
    /\ todo # <<>>
    /\ \E response \in Responses :
         LET ap == Head(todo)
             r == download(response, dirname(ap) \o <<basename(ap)>>, fs[i])
         IN  /\ fs' = [fs EXCEPT ![i] = r.fs]
             /\ log' = log \cup {[path |-> ap, outcome |-> r.outcome]}
             /\ todo' = Tail(todo)
             /\ IF r.raised # ""
                THEN Abort(r.raised)
                ELSE UNCHANGED <<pc, err>>
    /\ UNCHANGED <<models, redirects, resolved_urls, embeddable_parsed_urls, src, i,
                   fragment_json, root_resp, zips, channel, call>>

\* variant: the archive is made without waiting for the end of the asset loop
Zip_early ==
    /\ pc = "walk"
    /\ zips' = Append(zips, fs[i].files)
    /\ pc' = "emit"
    /\ UNCHANGED <<models, redirects, resolved_urls, embeddable_parsed_urls, src, i, fs,
                   fragment_json, root_resp, todo, log, channel, err, call>>

\* line 133: create_predictable_zip(soup_dir)
Zip ==
    /\ pc = "walk"
    /\ todo = <<>>
    /\ zips' = Append(zips, fs[i].files)
    /\ pc' = "emit"
    /\ UNCHANGED <<models, redirects, resolved_urls, embeddable_parsed_urls, src, i, fs,
                   fragment_json, root_resp, todo, log, channel, err, call>>

\* lines 136-153: the topic node and its app node
Emit ==
    /\ pc = "emit"
    /\ channel' = Append(channel,
            [ soup |-> i,
              topic_title |-> topic_node_title(fragment_json),
              topic_source_id |-> topic_node_source_id(models, i),
              source_id |-> app_node_source_id(embeddable_parsed_urls[i].fragment),
              title |-> app_node_title(fragment_json),
              description |-> app_node_description(fragment_json),
              license |-> get_model_license(models[i]),
              licensed |-> models[i].id,
              zip |-> i,
              json_title |-> fragment_json.title,
              json_about |-> fragment_json.about ])
    /\ i' = i + 1
    /\ pc' = "loop"
    /\ root_resp' = NoResponse
    /\ log' = {}
    /\ UNCHANGED <<models, redirects, resolved_urls, embeddable_parsed_urls, src, fs,
                   fragment_json, todo, zips, err, call>>

\* lines 155-157
Finish ==
    /\ pc = "loop"
    /\ i > Len(embeddable_parsed_urls)
    /\ pc' = "done"
    /\ UNCHANGED <<models, redirects, resolved_urls, embeddable_parsed_urls, src, i, fs,
                   fragment_json, root_resp, todo, log, zips, channel, err, call>>

Next ==
    \/ Resolve
    \/ Filter
    \/ MakeSoupDir
    \/ Crawl
    \/ FetchRoot
    \/ WriteRoot
    \/ Download
    \/ Zip
    \/ Emit
    \/ Finish

Spec == Init /\ [][Next]_vars

----------------------------------------------------------------------------
(* download() taken alone: one call on arguments drawn from small sets *)

\* soup directories a call may find: fresh, or with the crawl's assets staged
StartDirs ==
    { EmptyDir,
      [dirs |-> {<<>>, <<D("m")>>}, files |-> (ImagePng :> Content("static", ImagePng))] }

InitDownload ==
    /\ models = << [id |-> IdOf(1), preview_url |-> 1] >>
    /\ redirects = [k \in 1..1 |-> [raises |-> FALSE, path |-> EmbeddablePath,
                                     fragment |-> <<D("m"), J("a")>>]]
    /\ pc = "download"
    /\ resolved_urls = <<>>
    /\ embeddable_parsed_urls = <<>>
    /\ src = <<>>
    /\ i = 1
    /\ fs = <<>>
    /\ fragment_json = NoJson
    /\ root_resp = NoResponse
    /\ todo = <<>>
    /\ log = {}
    /\ zips = <<>>
    /\ channel = <<>>
    /\ err = ""
    /\ \E response \in Responses, path \in {P1, P2, P3, PI}, d \in StartDirs :
         call = [response |-> response, path |-> path, before |-> d, after |-> d,
                 raised |-> "", done |-> FALSE, made |-> TRUE]

CallDownload ==
    /\ pc = "download"
    /\ call.made
    /\ ~call.done
    /\ LET r == download(call.response, call.path, call.before)
       IN  call' = [call EXCEPT !.after = r.fs, !.raised = r.raised, !.done = TRUE]
    /\ UNCHANGED <<models, redirects, pc, resolved_urls, embeddable_parsed_urls, src, i, fs,
                   fragment_json, root_resp, todo, log, zips, channel, err>>

NextDownload == CallDownload

SpecDownload == InitDownload /\ [][NextDownload]_vars

----------------------------------------------------------------------------
(* Properties *)

Range(f) == { f[k] : k \in DOMAIN f }

Staged(k) == DOMAIN fs[k].files

Fragment(k) == embeddable_parsed_urls[k].fragment

Packages == Range(channel)

\* C1: when the mandatory root configuration fetch of an entry fails (status,
\* content-type or body), that entry alone is abandoned: the run does not
\* abort and the entry goes no further towards a package.
C1_RootFetchFailureAbandonsOnlyThatEntry ==
    (root_resp.sent /\ root_resp.failed)
        => pc \notin {"aborted", "write_root", "walk", "emit"}

\* C2: when resolving one entry's preview url fails with a network error, that
\* entry alone is skipped and the run continues with the rest of the catalog.
C2_ResolutionFailureSkipsOnlyThatEntry ==
    (\E k \in DOMAIN redirects : redirects[k].raises)
        => ~(pc = "aborted" /\ err = "ConnectionError")

\* C3: when the fetch of one referenced JSON asset fails, that file is absent
\* from the staging directory, every asset of the same configuration fetched
\* with success is staged at its path, and the entry goes on to packaging.
C3_AssetFailureIsLocal ==
    \A l \in log :
        l.outcome # "ok" =>
            /\ l.path \notin Staged(i)
            /\ pc # "aborted"
            /\ \A o \in log : o.outcome = "ok" => o.path \in Staged(i)

\* C4: download writes a file at download_path exactly when the status is a
\* success and the content-type starts with application/json; for every other
\* response (also a missing content-type header or a body that is not JSON)
\* it returns without raising and leaves the filesystem as it was.
C4_DownloadWritesIffOkJsonAndNeverRaises ==
    call.done =>
        LET good == /\ call.response.ok
                    /\ call.response.has_ct
                    /\ startswith(call.response.ct, "application/json")
                    /\ call.response.body_json
        IN  /\ call.raised = ""
            /\ good => call.path \in DOMAIN call.after.files
            /\ ~good => call.after = call.before

\* the catalog without the entries filtered as not embeddable
FilteredCatalog == [k \in 1..Len(src) |-> models[src[k]]]

\* C5: an entry whose resolved path is not /embeddable.html is filtered: it gets
\* no staging directory and no package, raises nothing, and the packages of the
\* embeddable entries are those of the catalog without the filtered entry.
C5_FilteredEntryLeavesPackagesUnchanged ==
    pc # "resolve" =>
        /\ Len(fs) <= Len(src)
        /\ Len(channel) <= Len(src)
        /\ \A p \in Packages :
              /\ p.topic_source_id = topic_node_source_id(FilteredCatalog, p.soup)
              /\ p.licensed = FilteredCatalog[p.soup].id

\* the references of a configuration: the non-empty 'url' of each entry of
\* 'models', and 'i18nMetadata' when it has a value
Referenced(json) ==
    { json.models[k].url.p :
        k \in { n \in 1..Len(json.models) :
                  json.models[n].url.has /\ json.models[n].url.p # <<>> } }
    \cup (IF json.i18nMetadata.has /\ json.i18nMetadata.p # <<>>
          THEN {json.i18nMetadata.p} ELSE {})

\* the JSON files of soup k besides its root configuration
StagedAssets(k) ==
    { p \in Staged(k) : fs[k].files[p].kind # "static" /\ p \notin {IndexHtml, Fragment(k)} }

WalkDoneAllOk == pc = "emit" /\ \A l \in log : l.outcome = "ok"

C6_WitnessI18n ==
    /\ WalkDoneAllOk
    /\ StagedAssets(i) = {P3, PI}

\* C7 as stated: title and description of a package are the configuration's
\* 'title' and 'about' when present and the placeholder strings otherwise.
C7_TitleAndDescriptionAreTheConfigurationFields ==
    \A p \in Packages :
        /\ p.title = (IF p.json_title.t = "absent"
                      THEN Str("follow redirect to get app title") ELSE p.json_title)
        /\ p.topic_title = (IF p.json_title.t = "absent"
                            THEN Str("follow redirect to get topic title") ELSE p.json_title)
        /\ p.description = (IF p.json_about.t = "absent"
                            THEN Str("follow redirect to get app description")
                            ELSE p.json_about)

\* C7 amended: the titles are the configuration's 'title' when present, the
\* description is the string form of 'about' when present ('about' itself when
\* it is a string, its printed form when it is a list), the placeholder strings
\* take the place of a missing field, which so never gives an empty or null value.
C7_TitleAndDescriptionAreStringsOfTheFields ==
    \A p \in Packages :
        /\ p.title = (IF p.json_title.t = "absent"
                      THEN Str("follow redirect to get app title") ELSE p.json_title)
        /\ p.topic_title = (IF p.json_title.t = "absent"
                            THEN Str("follow redirect to get topic title") ELSE p.json_title)
        /\ p.json_about.t = "absent"
              => p.description = Str("follow redirect to get app description")
        /\ p.json_about.t = "str" => p.description = p.json_about
        /\ p.json_about.t = "list"
              => p.description = Str("[" \o Joined(p.json_about.s) \o "]")
        /\ (p.json_title.t = "absent" \/ p.json_about.t = "absent")
              => \A v \in {p.title, p.topic_title, p.description} : v.t = "str" /\ v.s[1] # ""

C7_Witness ==
    \E p \in Packages, q \in Packages :
        /\ p.json_title.t = "absent"
        /\ p.title = Str("follow redirect to get app title")
        /\ q.json_about.t = "list"
        /\ q.description = Str("['a', 'b']")

\* C8: an entry is resolved before its staging directory exists; the archive of
\* a staging directory is made only when index.html and the root configuration
\* are written and every referenced asset has been attempted; nothing is
\* written into a staging directory once it is archived.
C8_EntryStepsAreOrdered ==
    /\ [](Len(fs) > 0 => /\ Len(resolved_urls) = Len(models)
                         /\ Len(fs) <= Len(embeddable_parsed_urls))
    /\ [](\A k \in 1..Len(zips) : zips[k] = fs[k].files)
    /\ [][ /\ Len(zips') > Len(zips) =>
                /\ Len(zips') = i
                /\ {IndexHtml, Fragment(i)} \subseteq Staged(i)
                /\ Range(get_asset_paths_from_json(fragment_json)) \subseteq { l.path : l \in log }
           /\ \A k \in 1..Len(zips) : fs'[k] = fs[k] ]_vars

C8_Witness ==
    /\ Len(zips) = 1
    /\ i = 2
    /\ pc = "walk"
    /\ log # {}
    /\ Staged(2) # Staged(1)

\* C9: the catalog id in a package's topic source_id and the catalog record
\* given to the license lookup are those of the catalog entry whose preview url
\* resolved to the package's embeddable url.
C9_PackageUsesItsOwnCatalogEntry ==
    \A p \in Packages :
        /\ p.topic_source_id = <<"model", models[src[p.soup]].id>>
        /\ p.licensed = models[src[p.soup]].id

\* C10: when the root configuration fetch of an embeddable entry succeeds, the
\* configuration is written at <staging dir>/<fragment> and the entry goes on,
\* whatever the directory part of the fragment.
C10_RootConfigurationIsWritten ==
    (root_resp.sent /\ ~root_resp.failed /\ pc # "write_root")
        => /\ err # "FileExistsError"
           /\ Fragment(i) \in Staged(i)

====
